---- MODULE Spec2Model ----
(***************************************************************************)
(* Kairovix lab equipment scheduler (src/app.py): the booking form's       *)
(* submit handler, the slot availability display, the booking listings and *)
(* the admin delete, over the Firestore "bookings" collection.             *)
(*                                                                         *)
(* Text is a sequence of one-character strings, so that strip(), strptime  *)
(* and strftime are modelled by what they do to the characters.  An        *)
(* instant (a Python datetime) is minutes since day 0 of the month:        *)
(* day * 1440 + hour * 60 + minute.  Dates are days of January 2025.       *)
(***************************************************************************)
EXTENDS Integers, Sequences, FiniteSets, TLC

VARIABLES
    store,      \* the "bookings" collection: a set of documents, each with its id
    nextId,     \* the next fresh document id (uuid4 never repeats)
    session,    \* st.session_state of each browser session: user_email, lab_name
    run,        \* each session's script run in flight: its position and pending write
    result      \* the message the latest booking or delete ended with

vars == <<store, nextId, session, run, result>>

\* ------------------------------------------------------------------ bounds
MaxDocs == 2    \* documents ever created (ids 1..MaxDocs)

\* ------------------------------------------------------------ Python values
None == "None"              \* None where the other values are strings
NoneText == <<"None">>      \* None where the other values are text
NoDatetime == -1            \* None where the other values are datetimes

\* ---------------------------------------------------------------- text
Digits == <<"0", "1", "2", "3", "4", "5", "6", "7", "8", "9">>

IsDigit(c) == \E i \in 1..10 : Digits[i] = c

DigitVal(c) == (CHOOSE i \in 1..10 : Digits[i] = c) - 1

IsSpace(c) == c = " "

\* str.strip(): drop leading and trailing whitespace
RECURSIVE LStrip(_)
LStrip(t) == IF t # <<>> /\ IsSpace(Head(t)) THEN LStrip(Tail(t)) ELSE t

RECURSIVE RStrip(_)
RStrip(t) == IF t # <<>> /\ IsSpace(t[Len(t)]) THEN RStrip(SubSeq(t, 1, Len(t) - 1)) ELSE t

Strip(t) == RStrip(LStrip(t))

\* two decimal digits, zero padded (strftime %d, %I, %M)
TwoDigits(n) == <<Digits[(n \div 10) + 1], Digits[(n % 10) + 1]>>

\* date.strftime("%Y-%m-%d") for a day of January 2025
FormatDate(day) == <<"2", "0", "2", "5", "-", "0", "1", "-">> \o TwoDigits(day)

\* datetime.strptime(text, "%Y-%m-%d") for the texts FormatDate writes: the day, or
\* NoDatetime when the text does not match
ParseDateText(t) ==
    IF /\ Len(t) = 10
       /\ SubSeq(t, 1, 8) = <<"2", "0", "2", "5", "-", "0", "1", "-">>
       /\ IsDigit(t[9]) /\ IsDigit(t[10])
       /\ DigitVal(t[9]) * 10 + DigitVal(t[10]) \in 1..31
    THEN DigitVal(t[9]) * 10 + DigitVal(t[10])
    ELSE NoDatetime

\* the date texts of the days booked in this model
DateTexts == {FormatDate(1), FormatDate(2)}

\* ParseDateText of those texts, computed once; any other text is parsed where
\* it is met
ParsedDates == [t \in DateTexts |-> ParseDateText(t)] @@ <<>>

ParseDate(t) == IF t \in DateTexts THEN ParsedDates[t] ELSE ParseDateText(t)

\* strptime's %I: 1[0-2]|0[1-9]|[1-9]
HourField(t) ==
    IF Len(t) = 2 /\ IsDigit(t[1]) /\ IsDigit(t[2])
       /\ DigitVal(t[1]) * 10 + DigitVal(t[2]) \in 1..12
    THEN DigitVal(t[1]) * 10 + DigitVal(t[2])
    ELSE IF Len(t) = 1 /\ IsDigit(t[1]) /\ DigitVal(t[1]) \in 1..9
    THEN DigitVal(t[1])
    ELSE NoDatetime

\* strptime's %M: [0-5]\d|\d
MinuteField(t) ==
    IF Len(t) = 2 /\ IsDigit(t[1]) /\ IsDigit(t[2]) /\ DigitVal(t[1]) \in 0..5
    THEN DigitVal(t[1]) * 10 + DigitVal(t[2])
    ELSE IF Len(t) = 1 /\ IsDigit(t[1])
    THEN DigitVal(t[1])
    ELSE NoDatetime

\* strptime's %p, case-insensitive: 0 for AM, 12 for PM
MeridiemField(t) ==
    IF Len(t) = 2 /\ t[1] \in {"A", "a"} /\ t[2] \in {"M", "m"} THEN 0
    ELSE IF Len(t) = 2 /\ t[1] \in {"P", "p"} /\ t[2] \in {"M", "m"} THEN 12
    ELSE NoDatetime

\* strptime(text, "%I:%M %p") on stripped text: minutes since midnight, or
\* NoDatetime.  The blank of the format matches one or more blanks.
ParseTime12h(t) ==
    LET colons == {i \in 1..Len(t) : t[i] = ":"}
        blanks == {i \in 1..Len(t) : IsSpace(t[i])}
    IN  IF colons = {} \/ blanks = {} THEN NoDatetime
        ELSE
        LET c  == CHOOSE i \in colons : \A j \in colons : i <= j
            b1 == CHOOSE i \in blanks : \A j \in blanks : i <= j
            b2 == CHOOSE i \in blanks : \A j \in blanks : i >= j
        IN  IF ~(c < b1 /\ \A i \in b1..b2 : IsSpace(t[i])) THEN NoDatetime
            ELSE
            LET h == HourField(SubSeq(t, 1, c - 1))
                m == MinuteField(SubSeq(t, c + 1, b1 - 1))
                p == MeridiemField(SubSeq(t, b2 + 1, Len(t)))
            IN  IF h = NoDatetime \/ m = NoDatetime \/ p = NoDatetime THEN NoDatetime
                ELSE ((h % 12) + p) * 60 + m

\* the time texts typed into the form in this model
T1200AM == <<"1", "2", ":", "0", "0", " ", "A", "M">>
T0900AM == <<"0", "9", ":", "0", "0", " ", "A", "M">>
T1200PM == <<"1", "2", ":", "0", "0", " ", "P", "M">>
T900am  == <<" ", "9", ":", "0", "0", " ", "a", "m">>
TBad    == <<"2", "5", ":", "9", "9", " ", "X", "M">>

TimeTexts == {T1200AM, T0900AM, T1200PM, T900am, TBad, <<>>}

\* ParseTime12h(Strip(t)) of those texts, computed once; any other text is parsed
\* where it is met
ParsedTimes == [t \in TimeTexts |-> ParseTime12h(Strip(t))] @@ <<>>

\* _parse_datetime_12h(date_obj, time_txt)
parse_datetime_12h(day, time_txt) ==
    LET m == IF time_txt \in TimeTexts THEN ParsedTimes[time_txt]
             ELSE ParseTime12h(Strip(time_txt))
    IN  IF day = NoDatetime \/ m = NoDatetime THEN NoDatetime ELSE day * 1440 + m

\* dt.strftime("%Y-%m-%d")
DateText(dt) == FormatDate(dt \div 1440)

\* dt.strftime("%I:%M %p")
TimeText(dt) ==
    LET h == (dt % 1440) \div 60
        m == dt % 60
        h12 == IF h % 12 = 0 THEN 12 ELSE h % 12
    IN  TwoDigits(h12) \o <<":">> \o TwoDigits(m) \o <<" ">>
            \o (IF h < 12 THEN <<"A", "M">> ELSE <<"P", "M">>)


\* ------------------------------------------------------- configuration
ADMIN_EMAIL ==
    <<"o", "g", "u", "n", "b", "o", "w", "a", "l", "e", "a", "d", "e", "o", "l", "a",
      "@", "g", "m", "a", "i", "l", ".", "c", "o", "m">>

LabEmail ==
    <<"a", "d", "e", "l", "a", "o", "g", "a", "l", "a", ".", "l", "a", "b",
      "@", "g", "m", "a", "i", "l", ".", "c", "o", "m">>

AdelaiyeOgalaLab ==
    <<"A", "d", "e", "l", "a", "i", "y", "e", "-", "O", "g", "a", "l", "a", " ", "L", "a", "b">>

Unassigned == <<"U", "n", "a", "s", "s", "i", "g", "n", "e", "d">>

\* KNOWN_LABS: single email -> lab name
KNOWN_LABS == (LabEmail :> AdelaiyeOgalaLab)

\* DOMAIN_TO_LAB: domain suffix -> lab name
DOMAIN_TO_LAB ==
    (<<"@", "b", "u", "f", "f", "a", "l", "o", ".", "e", "d", "u">> :> AdelaiyeOgalaLab)

EQUIPMENT_LIST ==
    <<"IncuCyte", "Fume Hood", "Flow Cytometer", "Centrifuge", "Nanodrop", "Qubit 4",
      "QuantStudio 3", "Genesis SC", "Biorad ChemiDoc", "C1000 Touch">>

INCUCYTE_SLOTS ==
    << <<"Top Left", "Top Right">>,
       <<"Middle Left", "Middle Right">>,
       <<"Bottom Left", "Bottom Right">> >>

\* [s for row in INCUCYTE_SLOTS for s in row]
INCUCYTE_SLOTS_FLAT == INCUCYTE_SLOTS[1] \o INCUCYTE_SLOTS[2] \o INCUCYTE_SLOTS[3]

FUME_HOOD_SLOTS == <<"Fume Hood 1", "Fume Hood 2">>

SLOT_EQUIPMENT == {"IncuCyte", "Fume Hood"}

\* the slot list the booking form offers for an equipment (none for unslotted)
SlotsOf(equipment) ==
    IF equipment = "IncuCyte" THEN INCUCYTE_SLOTS_FLAT
    ELSE IF equipment = "Fume Hood" THEN FUME_HOOD_SLOTS
    ELSE <<>>

\* the radio's placeholder option when no slot is available
NoneLabel(equipment) ==
    IF equipment = "IncuCyte" THEN "No slots available" ELSE "No hoods available"

Range(f) == {f[i] : i \in DOMAIN f}

\* ------------------------------------------------------------- sign-in
UpperCase == <<"A", "B", "D", "E", "F", "L", "O", "U">>
LowerCase == <<"a", "b", "d", "e", "f", "l", "o", "u">>

\* str.lower() on the letters the emails use
LowerChar(c) ==
    IF \E i \in 1..Len(UpperCase) : UpperCase[i] = c
    THEN LowerCase[CHOOSE i \in 1..Len(UpperCase) : UpperCase[i] = c]
    ELSE c

Lower(t) == [i \in 1..Len(t) |-> LowerChar(t[i])]

EndsWith(t, suffix) ==
    /\ Len(t) >= Len(suffix)
    /\ SubSeq(t, Len(t) - Len(suffix) + 1, Len(t)) = suffix

\* _infer_lab_from_email
infer_lab_from_email(email) ==
    IF email \in DOMAIN KNOWN_LABS THEN KNOWN_LABS[email]
    ELSE IF \E dom \in DOMAIN DOMAIN_TO_LAB : EndsWith(Lower(email), dom)
    THEN DOMAIN_TO_LAB[CHOOSE dom \in DOMAIN DOMAIN_TO_LAB : EndsWith(Lower(email), dom)]
    ELSE Unassigned

LoggedOut == [user_email |-> NoneText, lab_name |-> NoneText]

LoggedIn(s) == session[s].user_email # NoneText

\* a slip of IsAdmin: the admin block open to every signed-in user
IsAdmin_AnyUser(s) == session[s].user_email # NoneText

\* st.session_state.user_email == ADMIN_EMAIL
IsAdmin(s) == session[s].user_email = ADMIN_EMAIL

\* st.session_state.lab_name or ""
LabOrEmpty(sess) == IF sess.lab_name = NoneText THEN <<>> ELSE sess.lab_name

Idle == [pc |-> "idle"]

\* "Sign In" / "Create Account": firebase answers with an idToken or with an error
SignIn(s, email, password, idToken) ==
    /\ ~LoggedIn(s)
    /\ run[s] = Idle
    /\ session' =
            IF email # <<>> /\ password # <<>> /\ idToken
            THEN [session EXCEPT ![s] =
                    [user_email |-> email,
                     lab_name |-> IF email \in DOMAIN KNOWN_LABS
                                  THEN KNOWN_LABS[email]
                                  ELSE infer_lab_from_email(email)]]
            ELSE session
    /\ UNCHANGED <<store, nextId, run, result>>

\* "Logout"
Logout(s) ==
    /\ LoggedIn(s)
    /\ run[s] = Idle
    /\ session' = [session EXCEPT ![s] = LoggedOut]
    /\ UNCHANGED <<store, nextId, run, result>>

\* "Save Lab" in the Profile / Lab expander
SaveLab(s, new_lab) ==
    /\ LoggedIn(s)
    /\ run[s] = Idle
    /\ session' = [session EXCEPT ![s].lab_name =
            IF Strip(new_lab) # <<>> THEN Strip(new_lab) ELSE Unassigned]
    /\ UNCHANGED <<store, nextId, run, result>>


\* ------------------------------------------------------------- booking
\* A request is the booking form's field values when "Submit Booking" is pressed:
\* [name, lab_for_booking, equipment, slot, start_date, start_time_str, end_date,
\* end_time_str]; slot is the radio's value (None when nothing is chosen, and
\* always None for unslotted equipment).
\*
\* A document of the collection is booking_data with the document id.  The
\* fields "email" and "timestamp" are written and never read by the conflict
\* check, the availability display or the lab filter; they are left out.

\* the stored interval of a document, as the readers re-parse it
StoredStart(d) == parse_datetime_12h(ParseDate(d.start_date), d.start_time)

\* a slip of StoredEnd: the end time read with the start date
StoredEnd_StartDate(d) == parse_datetime_12h(ParseDate(d.start_date), d.end_time)

StoredEnd(d) == parse_datetime_12h(ParseDate(d.end_date), d.end_time)

\* strptime on a stored date raised: the readers skip the document ("continue")
DateUnreadable(d) ==
    ParseDate(d.start_date) = NoDatetime \/ ParseDate(d.end_date) = NoDatetime

\* a slip of Query: the slot filter left out
Query_EquipmentOnly(st, equipment, slot) == {d \in st : d.equipment = equipment}

\* q = db.collection("bookings").where("equipment", "==", equipment), and
\* .where("slot", "==", slot) for slotted equipment
Query(st, equipment, slot) ==
    {d \in st : /\ d.equipment = equipment
                /\ (equipment \in SLOT_EQUIPMENT => d.slot = slot)}

\* a slip of Collides: only a start inside the existing interval counts
Collides_StartInside(s_dt, e_dt, ex_start, ex_end) == ex_start <= s_dt /\ s_dt < ex_end

\* a slip of Collides: "<" and ">" for "<=" and ">=", so touching intervals collide
Collides_Closed(s_dt, e_dt, ex_start, ex_end) == ~(e_dt < ex_start \/ s_dt > ex_end)

\* a slip of Collides: only an end inside the existing interval counts
Collides_EndInside(s_dt, e_dt, ex_start, ex_end) == ex_start < e_dt /\ e_dt <= ex_end

\* a slip of Collides: the first test left out, not (s_dt >= ex_end)
Collides_SecondTestOnly(s_dt, e_dt, ex_start, ex_end) == ~(s_dt >= ex_end)

\* not (e_dt <= ex_start or s_dt >= ex_end)
Collides(s_dt, e_dt, ex_start, ex_end) == ~(e_dt <= ex_start \/ s_dt >= ex_end)

\* the conflicts list of the submit handler
Conflicts(st, equipment, slot, s_dt, e_dt) ==
    {d \in Query(st, equipment, slot) :
        /\ ~DateUnreadable(d)
        /\ Collides(s_dt, e_dt, StoredStart(d), StoredEnd(d))}

NameLabRequired == "Name and Lab are required."
InvalidTimes == "Please enter valid start/end times."
SelectSlot == "Please select a slot"
AlreadyBooked == "is already booked during that period."
Confirmed == "Booking confirmed"
Deleted == "Deleted booking"

\* a slip of TimesInvalid: ">" for ">=", so a zero-length interval passes
TimesInvalid_Strict(s_dt, e_dt) == s_dt = NoDatetime \/ e_dt = NoDatetime \/ s_dt > e_dt

\* not s_dt or not e_dt or s_dt >= e_dt
TimesInvalid(s_dt, e_dt) == s_dt = NoDatetime \/ e_dt = NoDatetime \/ s_dt >= e_dt

\* a slip of SlotMissing: the placeholder option taken for a slot
SlotMissing_NoLabel(equipment, slot) == slot = None \/ slot = ""

\* not slot or slot == none_label
SlotMissing(equipment, slot) == slot = None \/ slot = "" \/ slot = NoneLabel(equipment)

\* the submit handler up to its decision: the message it ends with
SubmitOutcome(st, req) ==
    LET s_dt == parse_datetime_12h(req.start_date, req.start_time_str)
        e_dt == parse_datetime_12h(req.end_date, req.end_time_str)
    IN  IF req.name = <<>> \/ Strip(req.lab_for_booking) = <<>>
        THEN NameLabRequired
        ELSE IF TimesInvalid(s_dt, e_dt)
        THEN InvalidTimes
        ELSE IF req.equipment \in SLOT_EQUIPMENT /\ SlotMissing(req.equipment, req.slot)
        THEN SelectSlot
        ELSE IF Conflicts(st, req.equipment, req.slot, s_dt, e_dt) # {}
        THEN AlreadyBooked
        ELSE Confirmed

\* a slip of booking_data: the radio's value left out of the document
booking_data_NoSlot(req) ==
    LET s_dt == parse_datetime_12h(req.start_date, req.start_time_str)
        e_dt == parse_datetime_12h(req.end_date, req.end_time_str)
    IN  [name       |-> Strip(req.name),
         lab        |-> Strip(req.lab_for_booking),
         equipment  |-> req.equipment,
         start_date |-> DateText(s_dt),
         start_time |-> TimeText(s_dt),
         end_date   |-> DateText(e_dt),
         end_time   |-> TimeText(e_dt),
         slot       |-> None]

\* booking_data
booking_data(req) ==
    LET s_dt == parse_datetime_12h(req.start_date, req.start_time_str)
        e_dt == parse_datetime_12h(req.end_date, req.end_time_str)
    IN  [name       |-> Strip(req.name),
         lab        |-> Strip(req.lab_for_booking),
         equipment  |-> req.equipment,
         start_date |-> DateText(s_dt),
         start_time |-> TimeText(s_dt),
         end_date   |-> DateText(e_dt),
         end_time   |-> TimeText(e_dt),
         slot       |-> IF req.equipment \in SLOT_EQUIPMENT THEN req.slot ELSE None]

\* a slip of NewDocId: the id counts the live documents, so after a delete a
\* new document takes the id of a live one and set() overwrites it
NewDocId_Count == Cardinality(store) + 1

\* str(uuid.uuid4()): an id no document has or had
NewDocId == nextId

WithId(data, id) ==
    [id |-> id, name |-> data.name, lab |-> data.lab, equipment |-> data.equipment,
     start_date |-> data.start_date, start_time |-> data.start_time,
     end_date |-> data.end_date, end_time |-> data.end_time, slot |-> data.slot]

\* db.collection("bookings").document(id).set(data): creates or overwrites
DocSet(st, id, data) == {d \in st : d.id # id} \cup {WithId(data, id)}

\* a slip of DocDelete: the delete goes to a path that holds no document
DocDelete_Missed(st, id) == st

\* a slip of DocDelete: the delete takes every reservation of the document's
\* equipment and slot with it
DocDelete_Resource(st, id) ==
    {d \in st : \A x \in st :
        x.id = id => ~(d.equipment = x.equipment /\ d.slot = x.slot)}

\* db.collection("bookings").document(id).delete()
DocDelete(st, id) == {d \in st : d.id # id}

Pending == {s \in DOMAIN run : run[s].pc = "write"}

\* the collection after the submit handler has run on it: the write happens only
\* on the branch that confirms
SubmitStore(st, id, req) ==
    IF SubmitOutcome(st, req) = Confirmed
    THEN DocSet(st, id, booking_data(req))
    ELSE st

\* "Submit Booking", run to completion: validation, conflict query and write
Submit(s, req) ==
    /\ LoggedIn(s)
    /\ run[s] = Idle
    /\ SubmitOutcome(store, req) = Confirmed => nextId <= MaxDocs
    /\ result' = SubmitOutcome(store, req)
    /\ store' = SubmitStore(store, NewDocId, req)
    /\ nextId' = IF SubmitOutcome(store, req) = Confirmed THEN nextId + 1 ELSE nextId
    /\ UNCHANGED <<session, run>>

\* "Submit Booking", first half: validation and the conflict query.  With no
\* conflict the run goes on to the write.
SubmitCheck(s, req) ==
    /\ LoggedIn(s)
    /\ run[s] = Idle
    /\ LET out == SubmitOutcome(store, req)
       IN  IF out = Confirmed
           THEN /\ nextId + Cardinality(Pending) <= MaxDocs
                /\ run' = [run EXCEPT ![s] = [pc |-> "write", data |-> booking_data(req)]]
                /\ UNCHANGED result
           ELSE /\ result' = out
                /\ UNCHANGED run
    /\ UNCHANGED <<store, nextId, session>>

\* "Submit Booking", second half: the write and the success message
SubmitWrite(s) ==
    /\ run[s].pc = "write"
    /\ store' = DocSet(store, NewDocId, run[s].data)
    /\ nextId' = nextId + 1
    /\ run' = [run EXCEPT ![s] = Idle]
    /\ result' = Confirmed
    /\ UNCHANGED session

\* the admin's "Delete" button on a row of the analytics drill-down
Cancel(s, doc_id) ==
    /\ IsAdmin(s)
    /\ run[s] = Idle
    /\ doc_id \in {d.id : d \in store}
    /\ store' = DocDelete(store, doc_id)
    /\ result' = Deleted
    /\ UNCHANGED <<nextId, session, run>>

\* the admin's "Delete" button, first half: the run lists the collection
\* (snapshots) and finds the pressed button on the row of a listed document
CancelList(s, doc_id) ==
    /\ IsAdmin(s)
    /\ run[s] = Idle
    /\ doc_id \in {d.id : d \in store}
    /\ run' = [run EXCEPT ![s] = [pc |-> "delete", doc_id |-> doc_id]]
    /\ UNCHANGED <<store, nextId, session, result>>

\* the admin's "Delete" button, second half: delete() on the document path, which
\* succeeds whether or not a document is there, and the success message
CancelDelete(s) ==
    /\ run[s].pc = "delete"
    /\ store' = DocDelete(store, run[s].doc_id)
    /\ result' = Deleted
    /\ run' = [run EXCEPT ![s] = Idle]
    /\ UNCHANGED <<nextId, session>>


\* ------------------------------------------------------------ listings
\* a slip of UpcomingBookings: the lab filter left out
UpcomingBookings_NoLabFilter(st, sess, show_all_labs, filter_equipment, filter_date) ==
    {d \in st :
        /\ ~(filter_equipment # "All" /\ d.equipment # filter_equipment)
        /\ ~(filter_date # NoDatetime /\ d.start_date # FormatDate(filter_date))}

\* the rows of "Upcoming Bookings" for a session: the documents that pass the lab,
\* equipment and date filters.  show_all_labs is the admin's checkbox (default
\* True); other sessions have no checkbox and the value False.  filter_date is
\* a day, or NoDatetime when "Filter by a specific date" is off.
UpcomingBookings(st, sess, show_all_labs, filter_equipment, filter_date) ==
    LET my_lab_only == ~(sess.user_email = ADMIN_EMAIL /\ show_all_labs)
    IN  {d \in st :
            /\ ~(my_lab_only /\ d.lab # LabOrEmpty(sess))
            /\ ~(filter_equipment # "All" /\ d.equipment # filter_equipment)
            /\ ~(filter_date # NoDatetime /\ d.start_date # FormatDate(filter_date))}

\* the documents behind the events of the "Equipment-Specific Calendar"
CalendarEvents(st, sess, equipment_for_calendar) ==
    {d \in st :
        /\ d.equipment = equipment_for_calendar
        /\ ~(sess.user_email # ADMIN_EMAIL /\ d.lab # LabOrEmpty(sess))
        /\ d.start_date # <<>> /\ d.end_date # <<>>
        /\ ~DateUnreadable(d)}

\* -------------------------------------------------------- availability
\* req_start and req_end and req_start < req_end
IntervalGiven(req_start, req_end) ==
    req_start # NoDatetime /\ req_end # NoDatetime /\ req_start < req_end

\* per_slot_bookings[s]: the stored intervals of the documents of a slot
PerSlotBookings(st, equipment, s) ==
    {<<StoredStart(d), StoredEnd(d)>> :
        d \in {x \in st : /\ x.equipment = equipment
                          /\ x.slot = s
                          /\ ~DateUnreadable(x)
                          /\ StoredStart(x) # NoDatetime
                          /\ StoredEnd(x) # NoDatetime}}

\* a slip of SlotOverlaps: "<" and ">" for "<=" and ">="
SlotOverlaps_Closed(st, equipment, s, req_start, req_end) ==
    \E b \in PerSlotBookings(st, equipment, s) :
        ~(req_end < b[1] \/ req_start > b[2])

\* a slip of SlotOverlaps: only a requested start inside a booking counts
SlotOverlaps_StartInside(st, equipment, s, req_start, req_end) ==
    \E b \in PerSlotBookings(st, equipment, s) :
        b[1] <= req_start /\ req_start < b[2]

\* any(not (req_end <= b_start or req_start >= b_end) for (b_start, b_end) in ...)
SlotOverlaps(st, equipment, s, req_start, req_end) ==
    \E b \in PerSlotBookings(st, equipment, s) :
        ~(req_end <= b[1] \/ req_start >= b[2])

\* the IncuCyte branch of the form: booked_slots, available_slots, the tag
\* shown beside each slot in the grid and the radio's options
IncuCyteAvailability(st, start_date, start_time_str, end_date, end_time_str) ==
    LET req_start == parse_datetime_12h(start_date, start_time_str)
        req_end == parse_datetime_12h(end_date, end_time_str)
        given == IntervalGiven(req_start, req_end)
        booked_slots ==
            IF given
            THEN {s \in Range(INCUCYTE_SLOTS_FLAT) :
                    SlotOverlaps(st, "IncuCyte", s, req_start, req_end)}
            ELSE {}
        available_slots ==
            IF given
            THEN SelectSeq(INCUCYTE_SLOTS_FLAT, LAMBDA s : s \notin booked_slots)
            ELSE <<>>
    IN  [booked_slots |-> booked_slots,
         available_slots |-> available_slots,
         tag |-> [s \in Range(INCUCYTE_SLOTS_FLAT) |->
                    IF s \in booked_slots THEN "Booked" ELSE "Available"],
         options |-> IF available_slots # <<>> THEN available_slots
                     ELSE <<"No slots available">>]

\* the Fume Hood branch of the form
FumeHoodAvailability(st, start_date, start_time_str, end_date, end_time_str) ==
    LET req_start == parse_datetime_12h(start_date, start_time_str)
        req_end == parse_datetime_12h(end_date, end_time_str)
        given == IntervalGiven(req_start, req_end)
        booked_slots ==
            IF given
            THEN {s \in Range(FUME_HOOD_SLOTS) :
                    SlotOverlaps(st, "Fume Hood", s, req_start, req_end)}
            ELSE {}
        available_slots ==
            IF given
            THEN SelectSeq(FUME_HOOD_SLOTS, LAMBDA s : s \notin booked_slots)
            ELSE FUME_HOOD_SLOTS
    IN  [booked_slots |-> booked_slots,
         available_slots |-> available_slots,
         tag |-> [s \in Range(FUME_HOOD_SLOTS) |->
                    IF s \in booked_slots THEN "Booked" ELSE "Available"],
         options |-> IF available_slots # <<>> THEN available_slots
                     ELSE <<"No hoods available">>]

\* the availability the form shows for a slotted equipment
Availability(st, equipment, start_date, start_time_str, end_date, end_time_str) ==
    IF equipment = "IncuCyte"
    THEN IncuCyteAvailability(st, start_date, start_time_str, end_date, end_time_str)
    ELSE FumeHoodAvailability(st, start_date, start_time_str, end_date, end_time_str)

\* -------------------------------------------------------------- inputs
Sessions == {"s1", "s2"}

LoginEmails == {ADMIN_EMAIL, LabEmail}

\* what the user types into "Your Lab Name" / "Your Lab"
LabTexts == {AdelaiyeOgalaLab, Unassigned}

\* (date, time text) pairs the user enters: 09:00 and noon of day 1, midnight of day 2
WhenInputs == {<<1, T0900AM>>, <<1, T1200PM>>, <<2, T1200AM>>}

\* (equipment, slot) pairs the user selects
TargetInputs ==
    {<<"IncuCyte", "Top Left">>, <<"IncuCyte", "Top Right">>,
     <<"Fume Hood", "Fume Hood 1">>, <<"Centrifuge", None>>}

Request(name, lab, target, from, to) ==
    [name |-> name, lab_for_booking |-> lab, equipment |-> target[1], slot |-> target[2],
     start_date |-> from[1], start_time_str |-> from[2],
     end_date |-> to[1], end_time_str |-> to[2]]

\* the (from, to) pairs of the plain requests: the three intervals between the
\* instants of WhenInputs, one of zero length and one inverted
WhenPairs ==
    {<<from, to>> : from \in WhenInputs, to \in WhenInputs}
        \ {<<<<2, T1200AM>>, <<1, T0900AM>>>>, <<<<2, T1200AM>>, <<1, T1200PM>>>>,
            <<<<1, T0900AM>>, <<1, T0900AM>>>>, <<<<2, T1200AM>>, <<2, T1200AM>>>>}

\* requests of one lab on every target, for every interval of WhenPairs
PlainRequests ==
    {Request(<<"A">>, AdelaiyeOgalaLab, target, when[1], when[2]) :
        target \in TargetInputs, when \in WhenPairs}

\* requests with one field left empty, malformed or written differently
OddRequests ==
    LET base(target, from, to) == Request(<<"A">>, Unassigned, target, from, to)
        tl == <<"IncuCyte", "Top Left">>
        a == <<1, T0900AM>>
        b == <<1, T1200PM>>
    IN  {[base(tl, a, b) EXCEPT !.name = <<>>],
         [base(tl, a, b) EXCEPT !.name = <<" ">>],
         [base(tl, a, b) EXCEPT !.lab_for_booking = <<" ">>],
         [base(tl, a, b) EXCEPT !.lab_for_booking = <<" ">> \o Unassigned],
         base(tl, <<1, TBad>>, b),
         base(tl, a, <<1, TBad>>),
         base(tl, a, <<1, <<>> >>),
         base(tl, <<1, T900am>>, b),
         base(<<"IncuCyte", None>>, a, b),
         base(<<"IncuCyte", "No slots available">>, a, b),
         base(<<"Fume Hood", "No hoods available">>, a, b)}

Requests == PlainRequests \cup OddRequests

\* requests of either lab on two targets, one interval
AccessRequests ==
    {Request(<<"A">>, lab, target, <<1, T0900AM>>, <<1, T1200PM>>) :
        lab \in LabTexts \cup {<<>>},
        target \in {<<"IncuCyte", "Top Left">>, <<"Centrifuge", None>>}}

\* requests for one slot, every interval
RaceRequests ==
    {Request(<<"A">>, AdelaiyeOgalaLab, <<"IncuCyte", "Top Left">>, from, to) :
        from \in WhenInputs, to \in WhenInputs}

\* ------------------------------------------------------ the form's page
\* What a script run leaves on the page of a session: the form's fields, the
\* availability computed from them (before the submit handler runs) and the
\* message the run ended with.
FormShown(st, equipment, from, to, message) ==
    [pc |-> "shown", equipment |-> equipment, from |-> from, to |-> to,
     shown |-> Availability(st, equipment, from[1], from[2], to[1], to[2]),
     message |-> message]

\* a run that renders the booking form for a slotted equipment and an interval,
\* with no slot chosen yet
Observe(s, equipment, from, to) ==
    /\ LoggedIn(s)
    /\ run[s].pc \in {"idle", "shown"}
    /\ run' = [run EXCEPT ![s] = FormShown(store, equipment, from, to, None)]
    /\ UNCHANGED <<store, nextId, session, result>>

\* "Submit Booking" pressed on the page shown, with one of the radio's options
\* chosen: the run renders the form again and then handles the submit
SubmitShown(s, slot) ==
    /\ LoggedIn(s)
    /\ run[s].pc = "shown"
    /\ slot \in Range(run[s].shown.options)
    /\ LET req == Request(<<"A">>, LabOrEmpty(session[s]), <<run[s].equipment, slot>>,
                          run[s].from, run[s].to)
           out == SubmitOutcome(store, req)
       IN  /\ out = Confirmed => nextId <= MaxDocs
           /\ result' = out
           /\ store' = SubmitStore(store, NewDocId, req)
           /\ nextId' = IF out = Confirmed THEN nextId + 1 ELSE nextId
           /\ run' = [run EXCEPT ![s] =
                        FormShown(store, run[s].equipment, run[s].from, run[s].to, out)]
    /\ UNCHANGED session

\* the intervals of the stale-page runs: [09:00, 12:00), [09:00, 24:00),
\* [12:00, 24:00) of day 1 and the inverted [12:00, 09:00)
StaleWhens ==
    {<<<<1, T0900AM>>, <<1, T1200PM>>>>, <<<<1, T0900AM>>, <<2, T1200AM>>>>,
     <<<<1, T1200PM>>, <<2, T1200AM>>>>, <<<<1, T1200PM>>, <<1, T0900AM>>>>}

\* the radio options a page can offer in the stale-page runs
StaleSlots == {"Top Left", "Top Right", "Fume Hood 1", "No slots available"}

\* the other caller's requests: one tray slot and one hood, two overlapping
\* intervals that neither contains the other's start and end
StaleRequests ==
    {Request(<<"B">>, AdelaiyeOgalaLab, target, when[1], when[2]) :
        target \in {<<"IncuCyte", "Top Left">>, <<"Fume Hood", "Fume Hood 1">>},
        when \in {<<<<1, T0900AM>>, <<1, T1200PM>>>>, <<<<1, T1200PM>>, <<2, T1200AM>>>>}}

\* ------------------------------------------------------- specification
Init ==
    /\ store = {}
    /\ nextId = 1
    /\ session = [s \in Sessions |-> LoggedOut]
    /\ run = [s \in Sessions |-> Idle]
    /\ result = "None"

\* The reservation engine used from one browser session: every operation runs
\* to completion before the next starts.
Next ==
    \/ \E email \in LoginEmails \cup {<<>>}, idToken \in BOOLEAN :
            SignIn("s1", email, <<"p">>, idToken)
    \/ Logout("s1")
    \/ \E req \in Requests : Submit("s1", req)
    \/ \E doc_id \in 1..MaxDocs : Cancel("s1", doc_id)

Spec == Init /\ [][Next]_vars

\* Lab affiliation and visibility: one session that also edits its lab, booking
\* for either lab.
NextAccess ==
    \/ \E email \in LoginEmails, idToken \in BOOLEAN :
            SignIn("s1", email, <<"p">>, idToken)
    \/ Logout("s1")
    \/ \E new_lab \in LabTexts \cup {<<>>} : SaveLab("s1", new_lab)
    \/ \E req \in AccessRequests : Submit("s1", req)
    \/ \E doc_id \in 1..MaxDocs : Cancel("s1", doc_id)

SpecAccess == Init /\ [][NextAccess]_vars

\* Two browser sessions whose script runs interleave: a submit's conflict query
\* and its write are separate steps, and so are a delete's listing and its delete.
NextRace ==
    \/ \E s \in Sessions, email \in LoginEmails : SignIn(s, email, <<"p">>, TRUE)
    \/ \E s \in Sessions, req \in RaceRequests : SubmitCheck(s, req)
    \/ \E s \in Sessions : SubmitWrite(s)
    \/ \E s \in Sessions, doc_id \in 1..MaxDocs : CancelList(s, doc_id)
    \/ \E s \in Sessions : CancelDelete(s)

SpecRace == Init /\ [][NextRace]_vars

\* A page that shows availability while another session books: session s1 works
\* from the page it was shown, session s2 submits in one step.
NextStale ==
    \/ \E s \in Sessions : SignIn(s, LabEmail, <<"p">>, TRUE)
    \/ \E equipment \in SLOT_EQUIPMENT, when \in StaleWhens :
            Observe("s1", equipment, when[1], when[2])
    \/ \E slot \in StaleSlots : SubmitShown("s1", slot)
    \/ \E req \in StaleRequests : Submit("s2", req)

SpecStale == Init /\ [][NextStale]_vars


\* ============================================================== claims
\* the specification's overlap of two half-open intervals
Overlap(a_start, a_end, b_start, b_end) == ~(a_end <= b_start \/ a_start >= b_end)

\* the interval a stored reservation denotes: its start and end date and time
IntervalStart(d) == parse_datetime_12h(ParseDate(d.start_date), d.start_time)

IntervalEnd(d) == parse_datetime_12h(ParseDate(d.end_date), d.end_time)

\* two documents book the same resource: the same equipment and the same slot
\* (unslotted equipment has no slot)
SameResource(a, b) == a.equipment = b.equipment /\ a.slot = b.slot

DocsOverlap(a, b) == Overlap(IntervalStart(a), IntervalEnd(a), IntervalStart(b), IntervalEnd(b))

\* the interval a request asks for, and whether it is well formed
ReqStart(req) == parse_datetime_12h(req.start_date, req.start_time_str)

ReqEnd(req) == parse_datetime_12h(req.end_date, req.end_time_str)

WellFormed(req) ==
    ReqStart(req) # NoDatetime /\ ReqEnd(req) # NoDatetime /\ ReqStart(req) < ReqEnd(req)

\* the live reservations on the resource a request names
OnResource(st, req) ==
    {d \in st : /\ d.equipment = req.equipment
                /\ d.slot = IF req.equipment \in SLOT_EQUIPMENT THEN req.slot ELSE None}

\* the live reservations on that resource that overlap the requested interval
Overlapping(st, req) ==
    {d \in OnResource(st, req) :
        Overlap(ReqStart(req), ReqEnd(req), IntervalStart(d), IntervalEnd(d))}

\* name and lab are given
Named(req) == req.name # <<>> /\ Strip(req.lab_for_booking) # <<>>

\* C1: run one at a time from an empty store, submits and cancels never leave two
\* distinct live reservations of one (equipment, slot) with overlapping intervals.
C1_NoDoubleBooking ==
    \A a \in store : \A b \in store :
        (a.id # b.id /\ SameResource(a, b)) => ~DocsOverlap(a, b)

\* two live reservations share a slot, and two share an unslotted equipment
C1_Witness ==
    /\ Cardinality(store) = 2
    /\ \A a \in store : \A b \in store : SameResource(a, b)

\* C2: with the two steps of concurrent submits interleaved, overlapping requests
\* for one (equipment, slot) are never both written to the store.
C2_NeverBothWritten ==
    ~ \E a \in store : \E b \in store :
        a.id < b.id /\ SameResource(a, b) /\ DocsOverlap(a, b)

\* C3: a submit whose interval overlaps a live reservation of its (equipment, slot)
\* writes nothing and is not confirmed; with name and lab given it ends with the
\* conflict message.
C3_ConflictRejected ==
    \A req \in Requests :
        (WellFormed(req) /\ Overlapping(store, req) # {})
            => /\ SubmitStore(store, NewDocId, req) = store
               /\ SubmitOutcome(store, req) # Confirmed
               /\ Named(req) => SubmitOutcome(store, req) = AlreadyBooked

\* the second, overlapping submit was turned down and one reservation is stored
C3_Witness == result = AlreadyBooked /\ Cardinality(store) = 1

\* the live reservations on the request's resource that only touch its interval
Touching(st, req) ==
    {d \in OnResource(st, req) :
        ReqStart(req) = IntervalEnd(d) \/ ReqEnd(req) = IntervalStart(d)}

\* C4: a valid submit that touches live reservations of its (equipment, slot) at a
\* boundary and overlaps none is admitted: the store gains the requested
\* reservation and keeps the ones it touches.
C4_TouchingAdmitted ==
    \A req \in Requests :
        (/\ Named(req) /\ WellFormed(req)
         /\ Touching(store, req) # {}
         /\ Overlapping(store, req) = {})
            => /\ SubmitOutcome(store, req) = Confirmed
               /\ store \subseteq SubmitStore(store, NewDocId, req)
               /\ \E d \in SubmitStore(store, NewDocId, req) \ store :
                    /\ IntervalStart(d) = ReqStart(req)
                    /\ IntervalEnd(d) = ReqEnd(req)
                    /\ OnResource({d}, req) = {d}

\* back-to-back bookings [a,b) and [b,c) of one resource are both live
C4_Witness ==
    \E a \in store : \E b \in store :
        a.id # b.id /\ SameResource(a, b) /\ IntervalEnd(a) = IntervalStart(b)

\* C5: the outcome of a submit for a slot of slotted equipment is the outcome it
\* would have with only that (equipment, slot)'s reservations in the store.
C5_SlotIndependence ==
    \A req \in Requests :
        req.equipment \in SLOT_EQUIPMENT
            => SubmitOutcome(store, req) = SubmitOutcome(OnResource(store, req), req)

\* a booking was admitted while an overlapping one is live in another slot of
\* the same equipment
C5_Witness ==
    /\ result = Confirmed
    /\ \E a \in store : \E b \in store :
        /\ a.equipment = b.equipment /\ a.equipment \in SLOT_EQUIPMENT
        /\ a.slot # b.slot
        /\ DocsOverlap(a, b)


\* C6: for a slotted equipment and a well-formed requested interval, the form
\* reports a slot booked exactly when a live reservation of that slot overlaps
\* the interval, and every other slot of the equipment available.
C6_AvailabilityExact ==
    \A equipment \in SLOT_EQUIPMENT : \A from \in WhenInputs : \A to \in WhenInputs :
        LET req_start == parse_datetime_12h(from[1], from[2])
            req_end == parse_datetime_12h(to[1], to[2])
            shown == Availability(store, equipment, from[1], from[2], to[1], to[2])
        IN  req_start < req_end =>
                \A s \in Range(SlotsOf(equipment)) :
                    LET taken == \E d \in store :
                            /\ d.equipment = equipment /\ d.slot = s
                            /\ Overlap(req_start, req_end, IntervalStart(d), IntervalEnd(d))
                    IN  /\ s \in shown.booked_slots <=> taken
                        /\ s \in Range(shown.available_slots) <=> ~taken
                        /\ shown.tag[s] = IF taken THEN "Booked" ELSE "Available"

\* asked for the interval of a booking of Top Left, the form shows Top Left
\* booked and the five other tray slots available
C6_Witness ==
    \E d \in store :
        /\ d.equipment = "IncuCyte" /\ d.slot = "Top Left"
        /\ LET shown == Availability(store, "IncuCyte", ParseDate(d.start_date), d.start_time,
                                     ParseDate(d.end_date), d.end_time)
           IN  /\ shown.booked_slots = {"Top Left"}
               /\ shown.available_slots = Tail(INCUCYTE_SLOTS_FLAT)

\* the request that books again what a stored reservation holds
Resubmit(d) ==
    Request(<<"A">>, d.lab, <<d.equipment, d.slot>>,
            <<ParseDate(d.start_date), d.start_time>>, <<ParseDate(d.end_date), d.end_time>>)

\* C7: once a live reservation is cancelled, a submit for its equipment, slot and
\* interval is admitted, provided no other live reservation of that resource
\* overlaps it.
C7_CancelFreesSlot ==
    [][\A doc_id \in 1..MaxDocs :
        Cancel("s1", doc_id) =>
            \A d \in store :
                (d.id = doc_id /\ Overlapping(store \ {d}, Resubmit(d)) = {})
                    => /\ SubmitOutcome(store', Resubmit(d)) = Confirmed
                       /\ \E n \in SubmitStore(store', NewDocId, Resubmit(d)) \ store' :
                            /\ SameResource(n, d)
                            /\ IntervalStart(n) = IntervalStart(d)
                            /\ IntervalEnd(n) = IntervalEnd(d)]_vars

\* the first reservation was cancelled and a later booking admitted
C7_Witness ==
    /\ result = Confirmed
    /\ \E d \in store : d.id = 2
    /\ \A d \in store : d.id # 1

\* C8: the listings of a session that is not the admin's hold only reservations of
\* the session's lab, whatever the filters; the admin's unfiltered listing and
\* calendar hold the reservations of every lab.
C8_LabScopedListing ==
    \A s \in Sessions :
        LoggedIn(s) =>
            IF session[s].user_email = ADMIN_EMAIL
            THEN /\ UpcomingBookings(store, session[s], TRUE, "All", NoDatetime) = store
                 /\ \A equipment \in Range(EQUIPMENT_LIST) :
                        CalendarEvents(store, session[s], equipment)
                            = {d \in store : d.equipment = equipment}
            ELSE /\ \A filter_equipment \in {"All"} \cup Range(EQUIPMENT_LIST) :
                    \A filter_date \in {NoDatetime, 1, 2} :
                        \A d \in UpcomingBookings(store, session[s], FALSE,
                                                  filter_equipment, filter_date) :
                            d.lab = session[s].lab_name
                 /\ \A equipment \in Range(EQUIPMENT_LIST) :
                        \A d \in CalendarEvents(store, session[s], equipment) :
                            d.lab = session[s].lab_name

\* a member's listing leaves out the other lab's reservation that the store holds
C8_Witness ==
    \E s \in Sessions :
        /\ LoggedIn(s) /\ session[s].user_email # ADMIN_EMAIL
        /\ \E d \in store : d.lab # session[s].lab_name
        /\ Cardinality(UpcomingBookings(store, session[s], FALSE, "All", NoDatetime)) = 1

\* the time texts of the inputs that are no 12-hour clock time
NotATime == {TBad, <<>>}

\* the times of a request do not parse, or its interval is empty or inverted
BadTimes(req) ==
    \/ req.start_time_str \in NotATime
    \/ req.end_time_str \in NotATime
    \/ ReqEnd(req) <= ReqStart(req)

\* C9: a submit whose start or end time text does not parse, or whose interval has
\* end <= start, is turned down with a validation message and writes nothing.
C9_BadTimesRejected ==
    \A req \in Requests :
        BadTimes(req) =>
            /\ SubmitStore(store, NewDocId, req) = store
            /\ SubmitOutcome(store, req) \in {NameLabRequired, InvalidTimes}
            /\ Named(req) => SubmitOutcome(store, req) = InvalidTimes

\* a submit was turned down for its times while the store holds a reservation
C9_Witness == result = InvalidTimes /\ store # {}

\* C10: a submit adds exactly one reservation when it is confirmed and none
\* otherwise, and every reservation stored before it is still stored, unchanged.
C10_SubmitFrame ==
    \A req \in Requests :
        LET after == SubmitStore(store, NewDocId, req)
        IN  /\ store \subseteq after
            /\ IF SubmitOutcome(store, req) = Confirmed
               THEN Cardinality(after \ store) = 1
               ELSE after = store

\* a second booking was admitted beside the first
C10_Witness == result = Confirmed /\ Cardinality(store) = 2

\* C11: a submit for slotted equipment whose slot is missing, or is no slot of the
\* equipment, writes nothing and is not confirmed; with name, lab and interval
\* valid it ends with the request to select a slot.
C11_MissingSlotRejected ==
    \A req \in Requests :
        (req.equipment \in SLOT_EQUIPMENT /\ req.slot \notin Range(SlotsOf(req.equipment)))
            => /\ SubmitStore(store, NewDocId, req) = store
               /\ SubmitOutcome(store, req) # Confirmed
               /\ (Named(req) /\ WellFormed(req)) => SubmitOutcome(store, req) = SelectSlot

\* a submit without a slot was turned down while the store holds a reservation
C11_Witness == result = SelectSlot /\ store # {}

\* the (date, time text) pairs of the inputs, unparseable and empty texts included
WhenTexts == WhenInputs \cup {<<1, TBad>>, <<1, <<>> >>}

\* C12: for a slotted equipment and a requested interval that is not given (a
\* time that does not parse, or end <= start), the form reports no slot of the
\* equipment as available to a signed-in user: no slot is tagged available or
\* offered for choice.
C12_UnknownNotAvailable ==
    (\E u \in Sessions : LoggedIn(u)) =>
    \A equipment \in SLOT_EQUIPMENT : \A from \in WhenTexts : \A to \in WhenTexts :
        LET req_start == parse_datetime_12h(from[1], from[2])
            req_end == parse_datetime_12h(to[1], to[2])
            shown == Availability(store, equipment, from[1], from[2], to[1], to[2])
        IN  (req_start = NoDatetime \/ req_end = NoDatetime \/ req_end <= req_start)
                => \A s \in Range(SlotsOf(equipment)) :
                        /\ shown.tag[s] # "Available"
                        /\ s \notin Range(shown.available_slots)
                        /\ s \notin Range(shown.options)

\* C13: a cancel of an identifier that is not in the store (already deleted by
\* another session's cancel) does not end with the success message, and leaves
\* the store unchanged.
C13_MissingCancelNotOk ==
    [][\A s \in Sessions :
        (CancelDelete(s) /\ run[s].doc_id \notin {d.id : d \in store})
            => (result' # Deleted /\ store' = store)]_vars

\* C14: a step that removes a reservation whose lab differs from the lab of the
\* session taking the step is a cancel by the administrator; no operation of
\* another user removes such a reservation.
C14_OnlyAdminDeletes ==
    [][\A d \in store :
        (d \notin store' /\ d.lab # session["s1"].lab_name)
            => /\ session["s1"].user_email = ADMIN_EMAIL
               /\ Cancel("s1", d.id)]_vars

\* a lab member is signed in, has had a booking admitted, and the store holds a
\* reservation of another lab beside it
C14_Witness ==
    /\ LoggedIn("s1") /\ session["s1"].user_email # ADMIN_EMAIL
    /\ result = Confirmed
    /\ Cardinality(store) = 2
    /\ \E d \in store : d.lab # session["s1"].lab_name

C16_AvailabilityMatchesAdmission ==
    \A equipment \in SLOT_EQUIPMENT : \A from \in WhenInputs : \A to \in WhenInputs :
        parse_datetime_12h(from[1], from[2]) < parse_datetime_12h(to[1], to[2]) =>
            LET shown == Availability(store, equipment, from[1], from[2], to[1], to[2])
            IN  \A s \in Range(SlotsOf(equipment)) :
                    LET req == Request(<<"A">>, AdelaiyeOgalaLab, <<equipment, s>>, from, to)
                    IN  /\ s \in Range(shown.available_slots)
                            <=> SubmitOutcome(store, req) = Confirmed
                        /\ s \in shown.booked_slots
                            <=> SubmitOutcome(store, req) = AlreadyBooked

\* for the interval of a stored tray reservation the form lists its slot as
\* booked and a submit for it is turned down, while a slot that abuts it in time
\* only is listed and admitted
C16_Witness ==
    \E d \in store : \E e \in store :
        /\ d.equipment = "IncuCyte" /\ e.equipment = "IncuCyte" /\ d.slot # e.slot
        /\ IntervalEnd(e) = IntervalStart(d)
        /\ LET shown == Availability(store, "IncuCyte", ParseDate(d.start_date), d.start_time,
                                     ParseDate(d.end_date), d.end_time)
           IN  /\ d.slot \in shown.booked_slots
               /\ e.slot \in Range(shown.available_slots)
               /\ SubmitOutcome(store, Resubmit(d)) = AlreadyBooked
               /\ SubmitOutcome(store, [Resubmit(d) EXCEPT !.slot = e.slot]) = Confirmed

\* C17: every reservation in the store has a non-empty requester name as stored
\* (no submit whose name is empty once trimmed has written one).
C17_StoredNameNonEmpty == \A d \in store : d.name # <<>>

\* C18: every reservation in the store on slotted equipment carries a slot of that
\* equipment, and every reservation on unslotted equipment carries no slot.
C18_SlotIffSlotted ==
    \A d \in store :
        IF SlotsOf(d.equipment) # <<>>
        THEN d.slot \in Range(SlotsOf(d.equipment))
        ELSE d.slot = None

\* the store holds a reservation of a tray slot and one of the centrifuge
C18_Witness ==
    /\ \E d \in store : d.equipment = "IncuCyte" /\ d.slot = "Top Right"
    /\ \E d \in store : d.equipment = "Centrifuge" /\ d.slot = None

\* C19: a cancel removes the reservation with the given identifier, and every
\* other reservation, on the same or any other equipment or slot, is in the
\* store afterwards as it was before; nothing else is.
C19_CancelFrame ==
    [][\A doc_id \in 1..MaxDocs :
        Cancel("s1", doc_id) =>
            /\ \A d \in store : d.id # doc_id => d \in store'
            /\ \A d \in store' : d \in store /\ d.id # doc_id]_vars

\* one of two reservations was cancelled and the other is still stored
C19_Witness == result = Deleted /\ Cardinality(store) = 1 /\ nextId = 3

\* the well-formed intervals at hand in a state: those of the stored
\* reservations and those the form's inputs denote
Intervals(st) ==
    {<<IntervalStart(d), IntervalEnd(d)>> : d \in st}
        \cup {i \in {<<parse_datetime_12h(from[1], from[2]),
                        parse_datetime_12h(to[1], to[2])>> :
                            from \in WhenInputs, to \in WhenInputs} : i[1] < i[2]}

\* C20: the overlap test of the conflict check is symmetric: for well-formed
\* intervals A and B it finds A to overlap B exactly when it finds B to overlap A.
C20_OverlapSymmetric ==
    \A a \in Intervals(store) : \A b \in Intervals(store) :
        Collides(a[1], a[2], b[1], b[2]) <=> Collides(b[1], b[2], a[1], a[2])

\* two stored reservations with different intervals that the test finds to
\* overlap, either way round
C20_Witness ==
    \E x \in store : \E y \in store :
        /\ <<IntervalStart(x), IntervalEnd(x)>> # <<IntervalStart(y), IntervalEnd(y)>>
        /\ Collides(IntervalStart(x), IntervalEnd(x), IntervalStart(y), IntervalEnd(y))
        /\ Collides(IntervalStart(y), IntervalEnd(y), IntervalStart(x), IntervalEnd(x))

\* the lab a signed-in email is assigned at sign-in
AssignedLab(email) ==
    IF email \in DOMAIN KNOWN_LABS THEN KNOWN_LABS[email] ELSE infer_lab_from_email(email)

\* C21: while a session that is not the admin's is signed in, its lab is the one
\* assigned to its email at sign-in, and its listing holds no reservation of
\* another lab than that one.
C21_LabFixedAtSignIn ==
    \A s \in Sessions :
        (LoggedIn(s) /\ session[s].user_email # ADMIN_EMAIL) =>
            /\ session[s].lab_name = AssignedLab(session[s].user_email)
            /\ \A d \in UpcomingBookings(store, session[s], FALSE, "All", NoDatetime) :
                    d.lab = AssignedLab(session[s].user_email)

\* C22: the reservation a confirmed submit of a session that is not the admin's
\* writes carries the lab of that session, and is in the session's unfiltered
\* listing after the submit.
C22_BookingInOwnListing ==
    [][\A req \in AccessRequests :
        (/\ Submit("s1", req)
         /\ session["s1"].user_email # ADMIN_EMAIL
         /\ result' = Confirmed)
            => \A d \in store' \ store :
                    /\ d.lab = session["s1"].lab_name
                    /\ d \in UpcomingBookings(store', session'["s1"], FALSE, "All", NoDatetime)]_vars

====
